---- MODULE Spec2Model ----
(***************************************************************************)
(* JobSearch_Agent: the evaluation pipeline of agent_graph.py              *)
(* (load_profile_node -> load_jobs_node -> match_jobs_node | skip ->       *)
(* save_results_node), the deduplicator of deduplicate_jobs.py, and the    *)
(* pure helpers they call.  Python dicts are functions over a set of       *)
(* string keys, lists are sequences, strings that the code scans are       *)
(* sequences of one-character strings.                                     *)
(***************************************************************************)
EXTENDS Integers, Sequences, FiniteSets, TLC

VARIABLES
    pc,             \* position of the run in the graph of build_graph
    state,          \* the AgentState dict handed from node to node
    profile_file,   \* profiles/me.json
    store,          \* data/jobs_<date>.json and data/new_jobs_<date>.json
    artifact,       \* data/matches_<date>.json
    idx,            \* match_jobs_node: number of postings already handled
    matches,        \* match_jobs_node: local list
    rejected,       \* match_jobs_node: local list
    exp_threshold,  \* match_jobs_node: local
    llm_calls,      \* the model runtime's log: postings it was invoked for
    writes,         \* the file system's log: opens of an artifact for writing
    error           \* the exception that ended the run, "" if none

vars == <<pc, state, profile_file, store, artifact, idx, matches, rejected,
          exp_threshold, llm_calls, writes, error>>

(***************************************************************************)
(* Bounds.                                                                 *)
(***************************************************************************)
MaxJobs == 2        \* postings held by the snapshot store, all files together
MaxToday == 3       \* postings of today's snapshot in DedupSpec
MaxFragments == 3   \* phrases in the description of a posting of RulesSpec

(***************************************************************************)
(* Python dicts.                                                           *)
(***************************************************************************)
EmptyDict == [k \in {} |-> 0]

Get(d, k, default) == IF k \in DOMAIN d THEN d[k] ELSE default

Put(d, k, v) == [x \in (DOMAIN d) \cup {k} |-> IF x = k THEN v ELSE d[x]]

(***************************************************************************)
(* JSON values as json.load / json.loads produce them.                     *)
(***************************************************************************)
JNull == [vt |-> "null", s |-> <<>>, n |-> 0, m |-> 0]
\* a string, s its characters
JStr(s) == [vt |-> "str", s |-> s, n |-> 0, m |-> 0]
JNum(n) == [vt |-> "int", s |-> <<>>, n |-> n, m |-> 0]
\* a float n + m/10, n >= 0
JFloat(n, m) == [vt |-> "float", s |-> <<>>, n |-> n, m |-> m]
JBool(b) == [vt |-> "bool", s |-> <<>>, n |-> IF b THEN 1 ELSE 0, m |-> 0]
\* a list of strings, s its items; n and m are the numbers formatted into them
JList(s, n, m) == [vt |-> "list", s |-> s, n |-> n, m |-> m]
JObj(d) == [vt |-> "dict", d |-> d]

(***************************************************************************)
(* Characters and strings.                                                 *)
(***************************************************************************)
UpperChars == <<"A","B","C","D","E","F","G","H","I","J","K","L","M","N","O","P","Q","R","S","T","U","V","W","X","Y","Z">>
LowerChars == <<"a","b","c","d","e","f","g","h","i","j","k","l","m","n","o","p","q","r","s","t","u","v","w","x","y","z">>
DigitChars == <<"0","1","2","3","4","5","6","7","8","9">>

LowerChar(c) ==
    LET at == {i \in 1..26 : UpperChars[i] = c}
    IN  IF at = {} THEN c ELSE LowerChars[CHOOSE i \in at : TRUE]

\* str.lower()
Lower(s) == [i \in 1..Len(s) |-> LowerChar(s[i])]

IsDigit(c) == \E i \in 1..10 : DigitChars[i] = c
DigitVal(c) == (CHOOSE i \in 1..10 : DigitChars[i] = c) - 1
IsSpace(c) == c \in {" ", "\n", "\t"}

\* k in s
Contains(s, k) ==
    \E i \in 1..(Len(s) - Len(k) + 1) : SubSeq(s, i, i + Len(k) - 1) = k

\* int() of a string of digits
RECURSIVE ToInt(_)
ToInt(ds) ==
    IF Len(ds) = 0 THEN 0
    ELSE 10 * ToInt(SubSeq(ds, 1, Len(ds) - 1)) + DigitVal(ds[Len(ds)])

(***************************************************************************)
(* _estimate_required_years: the three patterns, tried in order on the     *)
(* lower-cased text with re.search (leftmost match of that pattern).       *)
(***************************************************************************)
None == -1

kw_years == <<"y","e","a","r","s">>
kw_of == <<"o","f">>
kw_experience == <<"e","x","p","e","r","i","e","n","c","e">>
kw_minimum == <<"m","i","n","i","m","u","m">>

\* the literal lit stands at position i of t
LitAt(t, i, lit) ==
    /\ i >= 1
    /\ i + Len(lit) - 1 <= Len(t)
    /\ SubSeq(t, i, i + Len(lit) - 1) = lit

\* \d+ from position i (a digit): the last position of the greedy match
DigitsEnd(t, i) ==
    CHOOSE e \in i..Len(t) :
        /\ \A k \in i..e : IsDigit(t[k])
        /\ (e = Len(t) \/ ~IsDigit(t[e + 1]))

\* \s* from position j: the first position after the greedy match
SkipSpaces(t, j) ==
    CHOOSE k \in j..(Len(t) + 1) :
        /\ \A x \in j..(k - 1) : IsSpace(t[x])
        /\ (k = Len(t) + 1 \/ ~IsSpace(t[k]))

\* \s+ from position j: the first position after it, 0 when there is no space
SkipSpaces1(t, j) ==
    IF j <= Len(t) /\ IsSpace(t[j]) THEN SkipSpaces(t, j) ELSE 0

\* (\d+)\s*\+\s*years matched from position i
PlusYearsAt(t, i) ==
    /\ IsDigit(t[i])
    /\ LET j == SkipSpaces(t, DigitsEnd(t, i) + 1)
       IN  /\ LitAt(t, j, <<"+">>)
           /\ LitAt(t, SkipSpaces(t, j + 1), kw_years)

\* (\d+)\s*years\s+of\s+experience matched from position i
YearsOfExperienceAt(t, i) ==
    /\ IsDigit(t[i])
    /\ LET j == SkipSpaces(t, DigitsEnd(t, i) + 1)
           o == SkipSpaces1(t, j + Len(kw_years))
           x == SkipSpaces1(t, o + Len(kw_of))
       IN  /\ LitAt(t, j, kw_years)
           /\ LitAt(t, o, kw_of)
           /\ LitAt(t, x, kw_experience)

\* minimum\s+(\d+)\s*years matched from position i
MinimumYearsAt(t, i) ==
    /\ LitAt(t, i, kw_minimum)
    /\ LET d == SkipSpaces1(t, i + Len(kw_minimum))
       IN  /\ d >= 1 /\ d <= Len(t) /\ IsDigit(t[d])
           /\ LitAt(t, SkipSpaces(t, DigitsEnd(t, d) + 1), kw_years)

patterns == <<"plus_years", "years_of_experience", "minimum_years">>

MatchAt(p, t, i) ==
    CASE p = "plus_years" -> PlusYearsAt(t, i)
      [] p = "years_of_experience" -> YearsOfExperienceAt(t, i)
      [] p = "minimum_years" -> MinimumYearsAt(t, i)

\* re.search(p, t): the leftmost start of a match, 0 when there is none
Search(p, t) ==
    LET starts == {i \in 1..Len(t) : MatchAt(p, t, i)}
    IN  IF starts = {} THEN 0
        ELSE CHOOSE i \in starts : \A k \in starts : i <= k

\* int(m.group(1)) of the match of p that starts at i
Group1(p, t, i) ==
    LET d == IF p = "minimum_years" THEN SkipSpaces1(t, i + Len(kw_minimum)) ELSE i
    IN  ToInt(SubSeq(t, d, DigitsEnd(t, d)))

\* the patterns tried from the last to the first
RECURSIVE FirstPattern_last_first(_, _)
FirstPattern_last_first(k, t) ==
    IF k > Len(patterns) THEN None
    ELSE LET p == patterns[Len(patterns) + 1 - k]
             m == Search(p, t)
         IN  IF m # 0 THEN Group1(p, t, m)
             ELSE FirstPattern_last_first(k + 1, t)

RECURSIVE FirstPattern(_, _)
FirstPattern(k, t) ==
    IF k > Len(patterns) THEN None
    ELSE LET m == Search(patterns[k], t)
         IN  IF m # 0 THEN Group1(patterns[k], t, m)
             ELSE FirstPattern(k + 1, t)

_estimate_required_years(job_text) == FirstPattern(1, Lower(job_text))

(***************************************************************************)
(* The rule pre-filter of match_jobs_node.                                 *)
(***************************************************************************)
senior_keywords == <<
    <<"s","e","n","i","o","r">>,
    <<"l","e","a","d">>,
    <<"p","r","i","n","c","i","p","a","l">>,
    <<"s","t","a","f","f">>,
    <<"h","e","a","d"," ","o","f">> >>

\* any(k in title for k in senior_keywords), title already lower-cased
SeniorTitle(job) ==
    \E k \in 1..Len(senior_keywords) : Contains(Lower(job.title), senior_keywords[k])

\* f"{job.get('title','')}\n{jd}"
combined_text(job) == job.title \o <<"\n">> \o job.description

\* years is not None and years > exp_threshold
TooManyYears(job, threshold) ==
    LET years == _estimate_required_years(combined_text(job))
    IN  years # None /\ years > threshold


(***************************************************************************)
(* Model output and _safe_json_loads.  A text is a sequence of lexical     *)
(* tokens (white space dropped): braces, commas, "key": value pairs, bare  *)
(* numbers, and words that are no JSON at all.                             *)
(***************************************************************************)
LBrace == [t |-> "{", k |-> "", v |-> JNull]
RBrace == [t |-> "}", k |-> "", v |-> JNull]
Comma == [t |-> ",", k |-> "", v |-> JNull]
Word(w) == [t |-> "word", k |-> "", v |-> JStr(<<w>>)]
Number(n) == [t |-> "number", k |-> "", v |-> JNum(n)]
Pair(k, v) == [t |-> "pair", k |-> k, v |-> v]

ParseError == [vt |-> "JSONDecodeError"]
NoObjectError == [vt |-> "ValueError"]

\* the members of an object: pair (, pair)*
WellFormedMembers(toks) ==
    /\ Len(toks) % 2 = 1
    /\ \A i \in 1..Len(toks) :
          toks[i].t = (IF i % 2 = 1 THEN "pair" ELSE ",")

\* the dict of the members, a repeated key keeping its last value
RECURSIVE MembersDict(_)
MembersDict(toks) ==
    IF Len(toks) = 0 THEN EmptyDict
    ELSE LET last == toks[Len(toks)]
             rest == MembersDict(SubSeq(toks, 1, Len(toks) - 1))
         IN  IF last.t = "pair" THEN Put(rest, last.k, last.v) ELSE rest

\* json.loads(text): the value, or ParseError
json_loads(toks) ==
    IF Len(toks) = 1 /\ toks[1].t = "number" THEN toks[1].v
    ELSE IF /\ Len(toks) >= 2
            /\ toks[1].t = "{"
            /\ toks[Len(toks)].t = "}"
            /\ LET inner == SubSeq(toks, 2, Len(toks) - 1)
               IN  Len(inner) = 0 \/ WellFormedMembers(inner)
    THEN JObj(MembersDict(SubSeq(toks, 2, Len(toks) - 1)))
    ELSE ParseError

\* re.search(r"\{.*\}", text, DOTALL): first "{" to last "}", <<>> if no match
BraceRegion(toks) ==
    LET opens == {i \in 1..Len(toks) : toks[i].t = "{"}
        closes == {i \in 1..Len(toks) : toks[i].t = "}"}
    IN  IF opens = {} \/ closes = {} THEN <<>>
        ELSE LET first == CHOOSE i \in opens : \A j \in opens : i <= j
                 last == CHOOSE i \in closes : \A j \in closes : i >= j
             IN  IF first < last THEN SubSeq(toks, first, last) ELSE <<>>

_safe_json_loads(text) ==
    IF json_loads(text) # ParseError THEN json_loads(text)
    ELSE IF BraceRegion(text) = <<>> THEN NoObjectError
    ELSE json_loads(BraceRegion(text))


(***************************************************************************)
(* match_jobs_node, lines 204-209: the experience threshold.               *)
(***************************************************************************)
Raised == [vt |-> "Exception"]

IsException(v) ==
    v.vt \in {"Exception", "ConnectionError", "ValueError", "JSONDecodeError",
              "FileNotFoundError"}

\* v[k]: KeyError on a dict without k, TypeError on anything but a dict
Subscript(v, k) ==
    IF v.vt = "dict" /\ k \in DOMAIN v.d THEN v.d[k] ELSE Raised

\* int(v): integers, booleans, floats (truncated) and strings of digits
\* convert; everything else raises
int(v) ==
    CASE v.vt \in {"int", "bool", "float"} -> JNum(v.n)
      [] v.vt = "str" /\ Len(v.s) > 0 /\ (\A i \in 1..Len(v.s) : IsDigit(v.s[i]))
            -> JNum(ToInt(v.s))
      [] OTHER -> Raised

\* the fallback is 0 instead of 2
ThresholdOf_zero_default(profile) ==
    LET leaf == Subscript(Subscript(Subscript(profile, "targeting"),
                                    "seniority_preferences"),
                          "exclude_if_min_years_experience_greater_than")
    IN  IF int(leaf) = Raised THEN 0 ELSE int(leaf).n

ThresholdOf(profile) ==
    LET leaf == Subscript(Subscript(Subscript(profile, "targeting"),
                                    "seniority_preferences"),
                          "exclude_if_min_years_experience_greater_than")
    IN  IF int(leaf) = Raised THEN 2 ELSE int(leaf).n

(***************************************************************************)
(* Inputs: dates, postings, profile documents, model outputs, the state    *)
(* the caller hands to the graph.                                          *)
(***************************************************************************)
Yesterday == "d1"
Today == "d2"
Dates == {Yesterday, Today}

\* senior by title and by years: "Senior Dev", "9+ years"
JobSenior == [id |-> "a",
              title |-> <<"S","e","n","i","o","r"," ","D","e","v">>,
              description |-> <<"9","+"," ","y","e","a","r","s">>]
\* "Analyst", "3+ Years"
JobAnalyst == [id |-> "b",
               title |-> <<"A","n","a","l","y","s","t">>,
               description |-> <<"3","+"," ","Y","e","a","r","s">>]
\* no identifier, no stated years: "Intern", "none"
JobIntern == [id |-> "",
              title |-> <<"I","n","t","e","r","n">>,
              description |-> <<"n","o","n","e">>]

Postings == {JobSenior, JobAnalyst, JobIntern}

Batches(n) == UNION {[1..k -> Postings] : k \in 0..n}

Leaf(v) ==
    JObj([targeting |-> JObj([seniority_preferences |->
        JObj([exclude_if_min_years_experience_greater_than |-> v])])])

ProfileDocs == {
    JObj(EmptyDict),
    JObj([targeting |-> JStr(<<"x">>)]),
    Leaf(JNum(3)),
    Leaf(JFloat(2, 9)),
    Leaf(JStr(<<"5">>)),
    Leaf(JStr(<<"a","b">>)) }

ProfileFiles ==
    {[status |-> "missing", doc |-> JNull], [status |-> "unreadable", doc |-> JNull]}
        \cup {[status |-> "ok", doc |-> d] : d \in ProfileDocs}

yes == <<"y","e","s">>
no == <<"n","o">>

FullDecision(match, score) ==
    <<Pair("match", JStr(match)), Comma, Pair("score", JNum(score)), Comma,
      Pair("reasons", JList(<<>>, 0, 0)), Comma, Pair("red_flags", JList(<<>>, 0, 0))>>

ModelTexts == {
    <<LBrace>> \o FullDecision(yes, 80) \o <<RBrace>>,
    <<Word("Sure")>> \o <<LBrace>> \o FullDecision(no, 10) \o <<RBrace>> \o <<Word("Thanks")>>,
    <<Word("not"), Word("json")>>,
    <<Word("Here"), LBrace, Pair("match", JStr(yes)), Comma, RBrace>>,
    <<LBrace, Pair("match", JStr(yes)), RBrace>>,
    <<LBrace>> \o FullDecision(<<"Y","e","s">>, 90) \o <<RBrace>>,
    <<Number(42)>> }

\* what one call of ollama.chat does: raise, or return a text
ModelOutcomes ==
    {[raised |-> TRUE, content |-> <<>>]}
        \cup {[raised |-> FALSE, content |-> c] : c \in ModelTexts}

StaleRecord ==
    [job |-> JobIntern,
     decision |-> [match |-> JStr(yes), score |-> JNum(70),
                   reasons |-> JList(<<>>, 0, 0), red_flags |-> JList(<<>>, 0, 0)]]

InitialStates == {
    EmptyDict,
    [run_date |-> Yesterday],
    [run_date |-> Today],
    [run_date |-> "",
     matches |-> <<StaleRecord>>,
     rejected |-> <<StaleRecord>>,
     stats |-> [matching_ran |-> TRUE, matches_count |-> 1]] }

\* the snapshot files the fetcher may have left: jobs_<date> for each date
FetchedStores ==
    LET Opt == {[exists |-> FALSE, jobs |-> <<>>]}
                  \cup {[exists |-> TRUE, jobs |-> b] : b \in Batches(MaxJobs)}
        File(d, f) == IF f.exists THEN Put(EmptyDict, <<"jobs", d>>, f.jobs) ELSE EmptyDict
    IN  {File(Yesterday, y) @@ File(Today, t) :
            <<y, t>> \in {p \in Opt \X Opt : Len(p[1].jobs) + Len(p[2].jobs) <= MaxJobs}}

(***************************************************************************)
(* RulesSpec: the same graph, run on one posting whose description is put  *)
(* together from phrases that the three patterns match in different ways.  *)
(***************************************************************************)
Phrases == <<
    <<"3","+"," ","y","e","a","r","s">>,
    <<"M","i","n","i","m","u","m"," ","5"," ","Y","e","a","r","s">>,
    <<"1"," ","y","e","a","r","s"," ","o","f"," ","e","x","p","e","r","i","e","n","c","e">>,
    <<"Y","e","a","r","s">> >>

RECURSIVE JoinPhrases(_)
JoinPhrases(ps) ==
    IF Len(ps) = 0 THEN <<>>
    ELSE IF Len(ps) = 1 THEN Phrases[ps[1]]
    ELSE Phrases[ps[1]] \o <<",", " ">> \o JoinPhrases(Tail(ps))

Descriptions ==
    {JoinPhrases(ps) : ps \in UNION {[1..k -> 1..Len(Phrases)] : k \in 0..MaxFragments}}

RuleTitles == {
    <<"D","e","v">>,
    <<"L","e","a","d">>,
    <<"D","e","v"," ","7","+">> }

RulePostings ==
    {[id |-> "r", title |-> ti, description |-> de] : ti \in RuleTitles, de \in Descriptions}

RuleProfiles == {JObj(EmptyDict), Leaf(JNum(3)), Leaf(JNum(5))}

RulesInit ==
    /\ pc = "load_profile_node"
    /\ state = [run_date |-> Today]
    /\ profile_file \in {[status |-> "ok", doc |-> d] : d \in RuleProfiles}
    /\ store \in {Put(EmptyDict, <<"jobs", Today>>, <<job>>) : job \in RulePostings}
    /\ artifact = EmptyDict
    /\ idx = 0
    /\ matches = <<>>
    /\ rejected = <<>>
    /\ exp_threshold = 2
    /\ llm_calls = <<>>
    /\ writes = 0
    /\ error = ""

(***************************************************************************)
(* DedupSpec: the deduplicator and the graph on longer snapshots, in which *)
(* one identifier comes with two different texts.                          *)
(***************************************************************************)
\* the posting of JobSenior fetched again with another text: "Lead", "none"
JobRepost == [id |-> "a",
              title |-> <<"L","e","a","d">>,
              description |-> <<"n","o","n","e">>]

DedupPostings == Postings \cup {JobRepost}

\* today's snapshot: absent, or any list of up to MaxToday postings
TodaySnapshots ==
    {[exists |-> FALSE, jobs |-> <<>>]}
        \cup {[exists |-> TRUE, jobs |-> b] :
                b \in UNION {[1..k -> DedupPostings] : k \in 0..MaxToday}}

\* yesterday's snapshot: absent, empty, or one of four lists
YesterdaySnapshots ==
    {[exists |-> FALSE, jobs |-> <<>>]}
        \cup {[exists |-> TRUE, jobs |-> b] :
                b \in {<<>>, <<JobRepost>>, <<JobIntern>>,
                       <<JobRepost, JobIntern>>, <<JobAnalyst, JobSenior>>}}

DedupStores ==
    LET File(d, f) == IF f.exists THEN Put(EmptyDict, <<"jobs", d>>, f.jobs) ELSE EmptyDict
    IN  {File(Yesterday, y) @@ File(Today, t) :
            y \in YesterdaySnapshots, t \in TodaySnapshots}

DedupInit ==
    /\ pc = "load_profile_node"
    /\ state = [run_date |-> Today]
    /\ profile_file = [status |-> "ok", doc |-> JObj(EmptyDict)]
    /\ store \in DedupStores
    /\ artifact = EmptyDict
    /\ idx = 0
    /\ matches = <<>>
    /\ rejected = <<>>
    /\ exp_threshold = 2
    /\ llm_calls = <<>>
    /\ writes = 0
    /\ error = ""

Init ==
    /\ pc = "load_profile_node"
    /\ state \in InitialStates
    /\ profile_file \in ProfileFiles
    /\ store \in FetchedStores
    /\ artifact = EmptyDict
    /\ idx = 0
    /\ matches = <<>>
    /\ rejected = <<>>
    /\ exp_threshold = 2
    /\ llm_calls = <<>>
    /\ writes = 0
    /\ error = ""


(***************************************************************************)
(* The nodes.                                                              *)
(***************************************************************************)
\* today's date whatever the caller supplied
RunDate_today(st) == Today

\* state.get("run_date") or _today_str()
RunDate(st) == IF Get(st, "run_date", "") # "" THEN st["run_date"] ELSE Today

\* a missing or unreadable file read as an empty document
_read_json_or_empty(file) ==
    IF file.status = "ok" THEN file.doc ELSE JObj(EmptyDict)

\* _read_json(path): the document, or the exception open / json.load raises
_read_json(file) ==
    CASE file.status = "ok" -> file.doc
      [] file.status = "missing" -> [vt |-> "FileNotFoundError"]
      [] OTHER -> [vt |-> "JSONDecodeError"]

load_profile_node ==
    /\ pc = "load_profile_node"
    /\ IF ~IsException(_read_json(profile_file))
       THEN /\ state' = Put(Put(Put(state,
                    "run_date", RunDate(state)),
                    "profile", _read_json(profile_file)),
                    "stats", Put(Get(state, "stats", EmptyDict), "profile_loaded", TRUE))
            /\ pc' = "load_jobs_node"
            /\ error' = error
       ELSE /\ state' = state
            /\ pc' = "failed"
            /\ error' = _read_json(profile_file).vt
    /\ UNCHANGED <<profile_file, store, artifact, idx, matches, rejected,
                   exp_threshold, llm_calls, writes>>

\* an empty new_jobs file taken as no new_jobs file
ResolveJobs_nonempty_first(files, run_date) ==
    IF /\ <<"new_jobs", run_date>> \in DOMAIN files
       /\ files[<<"new_jobs", run_date>>] # <<>>
    THEN [jobs |-> files[<<"new_jobs", run_date>>], source |-> <<"new_jobs", run_date>>]
    ELSE IF <<"jobs", run_date>> \in DOMAIN files
    THEN [jobs |-> files[<<"jobs", run_date>>], source |-> <<"jobs", run_date>>]
    ELSE [jobs |-> <<>>, source |-> <<"NONE", "">>]

\* the jobs file preferred to the new_jobs file
ResolveJobs_jobs_first(files, run_date) ==
    IF <<"jobs", run_date>> \in DOMAIN files
    THEN [jobs |-> files[<<"jobs", run_date>>], source |-> <<"jobs", run_date>>]
    ELSE IF <<"new_jobs", run_date>> \in DOMAIN files
    THEN [jobs |-> files[<<"new_jobs", run_date>>], source |-> <<"new_jobs", run_date>>]
    ELSE [jobs |-> <<>>, source |-> <<"NONE", "">>]

\* lines 164-172: the batch and the name of the file it came from
ResolveJobs(files, run_date) ==
    IF <<"new_jobs", run_date>> \in DOMAIN files
    THEN [jobs |-> files[<<"new_jobs", run_date>>], source |-> <<"new_jobs", run_date>>]
    ELSE IF <<"jobs", run_date>> \in DOMAIN files
    THEN [jobs |-> files[<<"jobs", run_date>>], source |-> <<"jobs", run_date>>]
    ELSE [jobs |-> <<>>, source |-> <<"NONE", "">>]

route_if_no_jobs(st) ==
    IF Len(Get(st, "jobs", <<>>)) = 0 THEN "save_results_node" ELSE "match_jobs_node"

\* load_jobs_node, then the conditional edge out of it
load_jobs_node ==
    /\ pc = "load_jobs_node"
    /\ LET r == ResolveJobs(store, RunDate(state))
           next == Put(Put(Put(Put(state,
                    "jobs", r.jobs),
                    "matches", Get(state, "matches", <<>>)),
                    "rejected", Get(state, "rejected", <<>>)),
                    "stats", Put(Put(Get(state, "stats", EmptyDict),
                                 "jobs_source", r.source),
                                 "jobs_loaded", Len(r.jobs)))
       IN  /\ state' = next
           /\ pc' = route_if_no_jobs(next)
    /\ UNCHANGED <<profile_file, store, artifact, idx, matches, rejected,
                   exp_threshold, llm_calls, writes, error>>

\* match_jobs_node, lines 198-212: the locals before the loop
match_begin ==
    /\ pc = "match_jobs_node"
    /\ matches' = <<>>
    /\ rejected' = <<>>
    /\ exp_threshold' = ThresholdOf(Get(state, "profile", JObj(EmptyDict)))
    /\ idx' = 0
    /\ pc' = "match_loop"
    /\ UNCHANGED <<state, profile_file, store, artifact, llm_calls, writes, error>>

KeywordDecision ==
    [match |-> JStr(no), score |-> JNum(0),
     reasons |-> JList(<<"Role appears senior-level based on title.">>, 0, 0),
     red_flags |-> JList(<<"Senior/Lead title">>, 0, 0)]

YearsDecision(years, threshold) ==
    [match |-> JStr(no), score |-> JNum(0),
     reasons |-> JList(<<"Role appears to require {years}+ years of experience (threshold {exp_threshold}).">>, years, threshold),
     red_flags |-> JList(<<"Experience requirement: {years}+ years">>, years, 0)]

\* the decision of the except branch, line 245
FailedDecision(e) ==
    [match |-> JStr(no), score |-> JNum(0),
     reasons |-> JList(<<"LLM evaluation failed.">>, 0, 0),
     red_flags |-> JList(<<e.vt>>, 0, 0)]

\* llm_match_job_ollama: ollama.chat, then _safe_json_loads of its content
llm_match_job_ollama(outcome) ==
    IF outcome.raised THEN [vt |-> "ConnectionError"]
    ELSE _safe_json_loads(outcome.content)

\* lines 241-245: try the model, fall back on any exception
Decide(outcome) ==
    LET r == llm_match_job_ollama(outcome)
    IN  IF IsException(r) THEN JObj(FailedDecision(r)) ELSE r

\* the comparison without .lower()
SaysYes_exact(decision) == Get(decision, "match", JStr(<<>>)) = JStr(yes)

\* str(decision.get("match", "")).lower() == "yes"
SaysYes(decision) ==
    LET v == Get(decision, "match", JStr(<<>>))
    IN  v.vt = "str" /\ Lower(v.s) = yes

\* the experience rule tried before the keyword rule
PreFilter_years_first(job, threshold) ==
    IF TooManyYears(job, threshold) THEN "years"
    ELSE IF SeniorTitle(job) THEN "keyword"
    ELSE "pass"

\* lines 219-238: which rule, if any, rejects the posting before the model
PreFilter(job, threshold) ==
    IF SeniorTitle(job) THEN "keyword"
    ELSE IF TooManyYears(job, threshold) THEN "years"
    ELSE "pass"

\* line 247
record(job, decision) == [job |-> job, decision |-> decision]

\* lines 249-252: the two lists after the record is filed
FileMatches(list, rec) == IF SaysYes(rec.decision) THEN Append(list, rec) ELSE list

\* the record is appended to rejected whatever the decision
FileRejected_always(list, rec) == Append(list, rec)

FileRejected(list, rec) == IF SaysYes(rec.decision) THEN list ELSE Append(list, rec)

\* the loop body without time.sleep: after the model's judgment the loop goes
\* on to the next posting at once
match_step_no_pause ==
    /\ pc = "match_loop"
    /\ idx < Len(state["jobs"])
    /\ LET job == state["jobs"][idx + 1]
           rule == PreFilter(job, exp_threshold)
       IN  IF rule = "keyword"
           THEN /\ rejected' = Append(rejected, record(job, KeywordDecision))
                /\ idx' = idx + 1
                /\ UNCHANGED <<pc, matches, llm_calls, error>>
           ELSE IF rule = "years"
           THEN /\ rejected' = Append(rejected,
                        record(job, YearsDecision(
                            _estimate_required_years(combined_text(job)), exp_threshold)))
                /\ idx' = idx + 1
                /\ UNCHANGED <<pc, matches, llm_calls, error>>
           ELSE \E outcome \in ModelOutcomes :
                /\ llm_calls' = Append(llm_calls, [idx |-> idx + 1, outcome |-> outcome])
                /\ LET decision == Decide(outcome)
                   IN  IF decision.vt # "dict"
                       THEN \* line 249: decision.get on a value that is no dict
                            /\ pc' = "failed"
                            /\ error' = "AttributeError"
                            /\ UNCHANGED <<matches, rejected, idx>>
                       ELSE /\ matches' = FileMatches(matches, record(job, decision.d))
                            /\ rejected' = FileRejected(rejected, record(job, decision.d))
                            /\ idx' = idx + 1
                            /\ UNCHANGED <<pc, error>>
    /\ UNCHANGED <<state, profile_file, store, artifact, exp_threshold, writes>>

\* one pass of the loop body for jobs[idx + 1], up to time.sleep
match_step ==
    /\ pc = "match_loop"
    /\ idx < Len(state["jobs"])
    /\ LET job == state["jobs"][idx + 1]
           rule == PreFilter(job, exp_threshold)
       IN  IF rule = "keyword"
           THEN /\ rejected' = Append(rejected, record(job, KeywordDecision))
                /\ idx' = idx + 1
                /\ UNCHANGED <<pc, matches, llm_calls, error>>
           ELSE IF rule = "years"
           THEN /\ rejected' = Append(rejected,
                        record(job, YearsDecision(
                            _estimate_required_years(combined_text(job)), exp_threshold)))
                /\ idx' = idx + 1
                /\ UNCHANGED <<pc, matches, llm_calls, error>>
           ELSE \E outcome \in ModelOutcomes :
                /\ llm_calls' = Append(llm_calls, [idx |-> idx + 1, outcome |-> outcome])
                /\ LET decision == Decide(outcome)
                   IN  IF decision.vt # "dict"
                       THEN \* line 249: decision.get on a value that is no dict
                            /\ pc' = "failed"
                            /\ error' = "AttributeError"
                            /\ UNCHANGED <<matches, rejected, idx>>
                       ELSE /\ matches' = FileMatches(matches, record(job, decision.d))
                            /\ rejected' = FileRejected(rejected, record(job, decision.d))
                            /\ pc' = "match_sleep"
                            /\ UNCHANGED <<idx, error>>
    /\ UNCHANGED <<state, profile_file, store, artifact, exp_threshold, writes>>

\* time.sleep(0.1), the progress line, and the loop's next index
match_sleep ==
    /\ pc = "match_sleep"
    /\ idx' = idx + 1
    /\ pc' = "match_loop"
    /\ UNCHANGED <<state, profile_file, store, artifact, matches, rejected,
                   exp_threshold, llm_calls, writes, error>>

\* the statistics built anew instead of merged into those of the earlier nodes
match_return_fresh_stats ==
    /\ pc = "match_loop"
    /\ idx = Len(state["jobs"])
    /\ state' = Put(Put(Put(state,
                    "matches", matches),
                    "rejected", rejected),
                    "stats", [matching_ran |-> TRUE,
                              matches_count |-> Len(matches),
                              rejected_count |-> Len(rejected),
                              exp_threshold |-> exp_threshold])
    /\ pc' = "save_results_node"
    /\ UNCHANGED <<profile_file, store, artifact, idx, matches, rejected,
                   exp_threshold, llm_calls, writes, error>>

\* lines 260-271: the loop is over
match_return ==
    /\ pc = "match_loop"
    /\ idx = Len(state["jobs"])
    /\ state' = Put(Put(Put(state,
                    "matches", matches),
                    "rejected", rejected),
                    "stats", Put(Put(Put(Put(Get(state, "stats", EmptyDict),
                                 "matching_ran", TRUE),
                                 "matches_count", Len(matches)),
                                 "rejected_count", Len(rejected)),
                                 "exp_threshold", exp_threshold))
    /\ pc' = "save_results_node"
    /\ UNCHANGED <<profile_file, store, artifact, idx, matches, rejected,
                   exp_threshold, llm_calls, writes, error>>

\* lines 278-283
payload(st) ==
    [run_date |-> RunDate(st),
     stats |-> Get(st, "stats", EmptyDict),
     matches |-> Get(st, "matches", <<>>),
     rejected |-> Get(st, "rejected", <<>>)]

\* save_results_node up to open(path, "w") in _write_json: the file is
\* created or truncated
save_open ==
    /\ pc = "save_results_node"
    /\ artifact' = Put(artifact, RunDate(state), [status |-> "truncated", data |-> EmptyDict])
    /\ writes' = writes + 1
    /\ pc' = "save_dump"
    /\ UNCHANGED <<state, profile_file, store, idx, matches, rejected,
                   exp_threshold, llm_calls, error>>

\* json.dump writes the whole payload and the file is closed
save_dump ==
    /\ pc = "save_dump"
    /\ artifact' = Put(artifact, RunDate(state), [status |-> "complete", data |-> payload(state)])
    /\ pc' = "END"
    /\ UNCHANGED <<state, profile_file, store, idx, matches, rejected,
                   exp_threshold, llm_calls, writes, error>>

\* json.dump raises part-way (the disk is full, the device fails)
save_fail ==
    /\ pc = "save_dump"
    /\ artifact' = Put(artifact, RunDate(state), [status |-> "partial", data |-> EmptyDict])
    /\ pc' = "failed"
    /\ error' = "OSError"
    /\ UNCHANGED <<state, profile_file, store, idx, matches, rejected,
                   exp_threshold, llm_calls, writes>>

\* the process is terminated from outside
kill ==
    /\ pc \notin {"END", "failed", "killed"}
    /\ pc' = "killed"
    /\ UNCHANGED <<state, profile_file, store, artifact, idx, matches, rejected,
                   exp_threshold, llm_calls, writes, error>>

(***************************************************************************)
(* deduplicate_jobs.py                                                     *)
(***************************************************************************)
\* load_jobs: the empty list when the file does not exist
load_jobs(files, key) == Get(files, key, <<>>)

\* the set without the "if job.get("id")" filter
yesterday_ids_unfiltered(yesterday_jobs) ==
    {yesterday_jobs[i].id : i \in 1..Len(yesterday_jobs)}

\* {job.get("id") for job in yesterday_jobs if job.get("id")}
yesterday_ids(yesterday_jobs) ==
    {yesterday_jobs[i].id : i \in {k \in 1..Len(yesterday_jobs) : yesterday_jobs[k].id # ""}}

\* [job for job in today_jobs if job.get("id") not in yesterday_ids]
new_jobs(today_jobs, yesterday_jobs) ==
    SelectSeq(today_jobs, LAMBDA job : job.id \notin yesterday_ids(yesterday_jobs))

\* the result written over today's snapshot instead of the new_jobs file
deduplicate_jobs_in_place ==
    /\ pc = "load_profile_node"
    /\ <<"new_jobs", Today>> \notin DOMAIN store
    /\ store' = Put(store, <<"jobs", Today>>,
                    new_jobs(load_jobs(store, <<"jobs", Today>>),
                             load_jobs(store, <<"jobs", Yesterday>>)))
    /\ UNCHANGED <<pc, state, profile_file, artifact, idx, matches, rejected,
                   exp_threshold, llm_calls, writes, error>>

\* deduplicate_jobs(): load both snapshots, filter, save_jobs(new_jobs_file)
deduplicate_jobs ==
    /\ pc = "load_profile_node"
    /\ <<"new_jobs", Today>> \notin DOMAIN store
    /\ store' = Put(store, <<"new_jobs", Today>>,
                    new_jobs(load_jobs(store, <<"jobs", Today>>),
                             load_jobs(store, <<"jobs", Yesterday>>)))
    /\ UNCHANGED <<pc, state, profile_file, artifact, idx, matches, rejected,
                   exp_threshold, llm_calls, writes, error>>

Next ==
    \/ load_profile_node
    \/ load_jobs_node
    \/ match_begin
    \/ match_step
    \/ match_sleep
    \/ match_return
    \/ save_open
    \/ save_dump
    \/ save_fail
    \/ kill
    \/ deduplicate_jobs

Spec == Init /\ [][Next]_vars

RulesSpec == RulesInit /\ [][Next]_vars

DedupSpec == DedupInit /\ [][Next]_vars

TypeOK ==
    /\ pc \in {"load_profile_node", "load_jobs_node", "match_jobs_node", "match_loop",
               "match_sleep", "save_results_node", "save_dump", "END", "failed", "killed"}
    /\ idx \in 0..MaxJobs
    /\ writes \in 0..1

(***************************************************************************)
(* Vocabulary of the properties.                                           *)
(***************************************************************************)
\* per posting: the years the text asks for, and whether the title is senior
YearsOf == [job \in Postings |-> _estimate_required_years(combined_text(job))]
SeniorOf == [job \in Postings |-> SeniorTitle(job)]

InMatchJobs == pc \in {"match_jobs_node", "match_loop", "match_sleep"}

\* load_jobs_node has run and resolved an empty batch
EmptyBatchLoaded == "jobs" \in DOMAIN state /\ Len(state["jobs"]) = 0

\* match_jobs_node has returned
MatchJobsDone ==
    /\ pc \in {"save_results_node", "save_dump", "END"}
    /\ "jobs" \in DOMAIN state
    /\ Len(state["jobs"]) > 0

\* the RunResult documents that are completely on disk
RunResults ==
    {artifact[d].data : d \in {x \in DOMAIN artifact : artifact[x].status = "complete"}}

Last(seq) == seq[Len(seq)]

JobsOf(records) == [i \in 1..Len(records) |-> records[i].job]

\* c is a merge of a and b that keeps the order of each
RECURSIVE Interleaves(_, _, _)
Interleaves(a, b, c) ==
    IF Len(c) = 0 THEN Len(a) = 0 /\ Len(b) = 0
    ELSE \/ Len(a) > 0 /\ Head(a) = Head(c) /\ Interleaves(Tail(a), b, Tail(c))
         \/ Len(b) > 0 /\ Head(b) = Head(c) /\ Interleaves(a, Tail(b), Tail(c))

DecisionKeys == {"match", "score", "reasons", "red_flags"}

\* the model call failed, or its text is no JSON, or the JSON is no object
\* with the four Decision keys
ModelFailed(outcome) ==
    \/ outcome.raised
    \/ LET v == _safe_json_loads(outcome.content)
       IN  \/ v \in {ParseError, NoObjectError}
           \/ v.vt # "dict"
           \/ ~(DecisionKeys \subseteq DOMAIN v.d)

SayNoScoreZero(decision) ==
    /\ Get(decision, "match", JNull) = JStr(no)
    /\ Get(decision, "score", JNull) = JNum(0)

(***************************************************************************)
(* C1. Conditional skip: when the batch resolved by LoadJobs is empty the  *)
(* run never enters MatchJobs (no rule evaluated, no model invoked), and   *)
(* the persisted RunResult has matching_ran false or absent, jobs_loaded   *)
(* 0 and empty matches and rejected.                                       *)
(***************************************************************************)
C1_ConditionalSkip ==
    EmptyBatchLoaded =>
        /\ ~InMatchJobs
        /\ llm_calls = <<>>
        /\ idx = 0
        /\ \A r \in RunResults :
              /\ ~Get(r.stats, "matching_ran", FALSE)
              /\ r.stats["jobs_loaded"] = 0
              /\ r.matches = <<>>
              /\ r.rejected = <<>>

(***************************************************************************)
(* C2. Failure closed: whenever a posting is judged by the model and the   *)
(* call fails or its output is malformed (no JSON object, malformed JSON,  *)
(* a parsed value missing one of the four Decision keys), the Decision     *)
(* attached to the posting says match "no" with score 0.                   *)
(***************************************************************************)
C2_FailureClosed ==
    [][(/\ llm_calls' # llm_calls
        /\ ModelFailed(Last(llm_calls').outcome)
        /\ pc' = "match_sleep")
       => /\ matches' = matches
          /\ Len(rejected') = Len(rejected) + 1
          /\ SayNoScoreZero(Last(rejected').decision)]_vars

(***************************************************************************)
(* C3. No model-side failure aborts the batch: whatever the model does on  *)
(* a posting, MatchJobs is not left by a crash, and it returns only after  *)
(* every posting of the batch was evaluated.                               *)
(***************************************************************************)
C3_ModelNeverAborts ==
    /\ ~(pc = "failed" /\ error = "AttributeError")
    /\ (pc = "failed" /\ llm_calls # <<>> => error = "OSError")
    /\ (MatchJobsDone => idx = Len(state["jobs"]))

(***************************************************************************)
(* C4. Partition and order: after MatchJobs every posting of the batch is  *)
(* in exactly one of matches and rejected, each list is in input order,    *)
(* and merging the two by input position gives the batch back.             *)
(***************************************************************************)
C4_PartitionInOrder ==
    MatchJobsDone =>
        /\ Len(state["matches"]) + Len(state["rejected"]) = Len(state["jobs"])
        /\ Interleaves(JobsOf(state["matches"]), JobsOf(state["rejected"]), state["jobs"])
        /\ \A r \in RunResults :
              r.run_date = RunDate(state) =>
                  Interleaves(JobsOf(r.matches), JobsOf(r.rejected), state["jobs"])

\* both buckets are filled by a finished MatchJobs
C4_Witness ==
    /\ MatchJobsDone
    /\ Len(state["matches"]) > 0
    /\ Len(state["rejected"]) > 0
    /\ pc = "END"

(***************************************************************************)
(* C5. Bucket routing.                                                     *)
(***************************************************************************)
AllOf(list, P(_)) == \A i \in 1..Len(list) : P(list[i])

\* decision.match is exactly the string "yes"
MatchEqualsYes(rec) == Get(rec.decision, "match", JNull) = JStr(yes)

\* decision.match is a string that reads "yes" once lower-cased
MatchReadsYes(rec) ==
    /\ "match" \in DOMAIN rec.decision
    /\ rec.decision["match"].vt = "str"
    /\ Lower(rec.decision["match"].s) = yes

NotMatchEqualsYes(rec) == ~MatchEqualsYes(rec)
NotMatchReadsYes(rec) == ~MatchReadsYes(rec)

\* a rule of the pre-filter rejects the posting of the record
RuleRejects(rec) ==
    \/ SeniorOf[rec.job]
    \/ (YearsOf[rec.job] # None /\ YearsOf[rec.job] > exp_threshold)
NotRuleRejects(rec) == ~RuleRejects(rec)

\* the model call raised or its text could not be parsed
Unparseable(outcome) ==
    \/ outcome.raised
    \/ _safe_json_loads(outcome.content) \in {ParseError, NoObjectError}

\* C5 as stated: a record is in matches if and only if its decision.match
\* equals "yes", and in rejected otherwise.
C5_ExactYes ==
    /\ AllOf(matches, MatchEqualsYes)
    /\ AllOf(rejected, NotMatchEqualsYes)

\* C5, amended: a record is in matches if and only if its decision.match,
\* as a string and lower-cased, equals "yes" ("Yes" counts), and in rejected
\* otherwise; no posting rejected by a rule is in matches, and a posting
\* whose model call failed or whose response was unparseable never enters
\* matches.
C5_BucketRouting ==
    /\ [](/\ AllOf(matches, MatchReadsYes)
          /\ AllOf(rejected, NotMatchReadsYes)
          /\ AllOf(matches, NotRuleRejects)
          /\ (MatchJobsDone =>
                /\ AllOf(state["matches"], MatchReadsYes)
                /\ AllOf(state["rejected"], NotMatchReadsYes)))
    /\ [][(llm_calls' # llm_calls /\ Unparseable(Last(llm_calls').outcome))
             => matches' = matches]_vars

\* a posting the model answered with "Yes" has been persisted in matches
C5_Witness ==
    /\ pc = "END"
    /\ MatchJobsDone
    /\ \E i \in 1..Len(state["matches"]) :
          state["matches"][i].decision["match"] = JStr(<<"Y","e","s">>)
    /\ \E k \in 1..Len(llm_calls) : Unparseable(llm_calls[k].outcome)

(***************************************************************************)
(* C6. The pre-filter precedes the model: the keyword rule, then the       *)
(* experience rule, then the model; a posting one of the rules rejects is  *)
(* filed in rejected with match "no" and score 0 and the model is never    *)
(* invoked for it; a posting that passes both is judged by exactly one     *)
(* model invocation.                                                       *)
(***************************************************************************)
Calls(i) == Cardinality({k \in 1..Len(llm_calls) : llm_calls[k].idx = i})

PassesRules(job) ==
    /\ ~SeniorOf[job]
    /\ (YearsOf[job] = None \/ YearsOf[job] <= exp_threshold)

\* the record a rule files for a posting it rejects, the keyword rule first
RuleRecord(job) ==
    [job |-> job,
     decision |-> IF SeniorOf[job] THEN KeywordDecision
                  ELSE YearsDecision(YearsOf[job], exp_threshold)]

RECURSIVE RuleRecords(_)
RuleRecords(jobs) ==
    IF Len(jobs) = 0 THEN <<>>
    ELSE (IF PassesRules(Head(jobs)) THEN <<>> ELSE <<RuleRecord(Head(jobs))>>)
            \o RuleRecords(Tail(jobs))

FiledByRule(rec) ==
    /\ "reasons" \in DOMAIN rec.decision
    /\ rec.decision["reasons"].s \in {KeywordDecision["reasons"].s,
                                      YearsDecision(0, 0)["reasons"].s}

C6_PreFilterFirst ==
    "jobs" \in DOMAIN state =>
        /\ \A i \in 1..Len(state["jobs"]) :
              /\ Calls(i) <= 1
              /\ (Calls(i) = 1 => PassesRules(state["jobs"][i]) /\ i <= idx + 1)
              /\ (i <= idx => (Calls(i) = 1 <=> PassesRules(state["jobs"][i])))
        /\ SelectSeq(rejected, FiledByRule) = RuleRecords(SubSeq(state["jobs"], 1, idx))
        /\ AllOf(SelectSeq(rejected, FiledByRule), LAMBDA rec : SayNoScoreZero(rec.decision))

\* a batch of a rule-rejected posting and a posting the model judged once
C6_Witness ==
    /\ pc = "END"
    /\ MatchJobsDone
    /\ Len(state["jobs"]) = 2
    /\ Len(llm_calls) = 1
    /\ \E i \in 1..Len(rejected) : rejected[i] = [job |-> JobSenior, decision |-> KeywordDecision]

(***************************************************************************)
(* C7. Experience rule (checked under RulesSpec): N is the number of the   *)
(* first pattern, in the order "<N>+ years", "<N> years of experience",    *)
(* "minimum <N> years", that matches anywhere in title + description, not  *)
(* the largest or smallest number matched; the rule rejects the posting    *)
(* exactly when N is known and N > threshold, and a posting with           *)
(* N = threshold, N < threshold or N unknown goes on to the model.         *)
(***************************************************************************)
\* the number of the leftmost match of pattern p in the text, None if none
NumberOf(p, text) ==
    LET t == Lower(text)
    IN  IF Search(p, t) = 0 THEN None ELSE Group1(p, t, Search(p, t))

\* the first pattern in priority order decides
ExpectedYears(text) ==
    IF NumberOf("plus_years", text) # None THEN NumberOf("plus_years", text)
    ELSE IF NumberOf("years_of_experience", text) # None
         THEN NumberOf("years_of_experience", text)
    ELSE NumberOf("minimum_years", text)

ExpectedYearsOf == [job \in RulePostings |-> ExpectedYears(combined_text(job))]
RuleSeniorOf == [job \in RulePostings |-> SeniorTitle(job)]

FiledByYearsRule(rec) ==
    /\ "reasons" \in DOMAIN rec.decision
    /\ rec.decision["reasons"].s = YearsDecision(0, 0)["reasons"].s

C7_ExperienceRule ==
    ("jobs" \in DOMAIN state /\ Len(state["jobs"]) = 1) =>
        LET job == state["jobs"][1]
            N == ExpectedYearsOf[job]
            reject == ~RuleSeniorOf[job] /\ N # None /\ N > exp_threshold
        IN  /\ (reject =>
                  /\ llm_calls = <<>>
                  /\ matches = <<>>
                  /\ (idx >= 1 => rejected = <<[job |-> job,
                                               decision |-> YearsDecision(N, exp_threshold)]>>))
            /\ (~reject => \A i \in 1..Len(rejected) : ~FiledByYearsRule(rejected[i]))
            /\ (~reject /\ ~RuleSeniorOf[job] /\ idx >= 1 => Len(llm_calls) = 1)

\* the three patterns match with the numbers 5, 3 and 1, the threshold is 3,
\* and the posting (N = 3) went to the model
C7_Witness ==
    /\ pc = "END"
    /\ "jobs" \in DOMAIN state
    /\ Len(state["jobs"]) = 1
    /\ state["jobs"][1].description = JoinPhrases(<<2, 1, 3>>)
    /\ ~RuleSeniorOf[state["jobs"][1]]
    /\ exp_threshold = 3
    /\ Len(llm_calls) = 1

(***************************************************************************)
(* C8. Threshold resolution.                                               *)
(***************************************************************************)
ThresholdPath == <<"targeting", "seniority_preferences",
                   "exclude_if_min_years_experience_greater_than">>

\* the keys of the path are all there, each but the last holding a dict
RECURSIVE HasPath(_, _)
HasPath(doc, path) ==
    IF Len(path) = 0 THEN TRUE
    ELSE /\ doc.vt = "dict"
         /\ Head(path) \in DOMAIN doc.d
         /\ HasPath(doc.d[Head(path)], Tail(path))

RECURSIVE ValueAt(_, _)
ValueAt(doc, path) ==
    IF Len(path) = 0 THEN doc ELSE ValueAt(doc.d[Head(path)], Tail(path))

\* the threshold as the claim states it: the value when it is there and is a
\* number, 2 otherwise
IsStatedThreshold(threshold, doc) ==
    IF HasPath(doc, ThresholdPath) /\ ValueAt(doc, ThresholdPath).vt = "int"
    THEN threshold = ValueAt(doc, ThresholdPath).n
    ELSE IF HasPath(doc, ThresholdPath) /\ ValueAt(doc, ThresholdPath).vt = "float"
    THEN 10 * threshold = 10 * ValueAt(doc, ThresholdPath).n + ValueAt(doc, ThresholdPath).m
    ELSE threshold = 2

\* the threshold as int() converts it: integers and booleans as they are,
\* floats truncated, strings of digits read as a number; 2 otherwise
ConvertedThreshold(doc) ==
    IF ~HasPath(doc, ThresholdPath) THEN 2
    ELSE LET v == ValueAt(doc, ThresholdPath)
         IN  CASE v.vt \in {"int", "bool", "float"} -> v.n
               [] v.vt = "str" /\ v.s # <<>> /\ (\A i \in 1..Len(v.s) : IsDigit(v.s[i]))
                    -> ToInt(v.s)
               [] OTHER -> 2

\* the record agrees with an experience rule that compares with threshold
ComparedWith(rec, threshold) ==
    ~SeniorOf[rec.job] =>
        /\ FiledByYearsRule(rec) <=>
              (YearsOf[rec.job] # None /\ YearsOf[rec.job] > threshold)
        /\ (FiledByYearsRule(rec) =>
              rec.decision = YearsDecision(YearsOf[rec.job], threshold))

\* C8 as stated: the threshold is the profile's nested value when it is
\* present and numeric, and 2 on any lookup failure, wrong or non-numeric
\* type included; stats.exp_threshold is that threshold.
C8_ThresholdAsStated ==
    MatchJobsDone =>
        IsStatedThreshold(state["stats"]["exp_threshold"], state["profile"])

\* C8, amended: the threshold is int() of the profile's nested value when the
\* lookup and the conversion succeed (an integer or boolean as it is, a float
\* truncated, a string of digits such as "5" as its number) and 2 when a key
\* is missing, a value on the way is no dict, or int() raises; never an
\* abort; stats.exp_threshold is the one threshold every experience-rule
\* comparison of the run used.
C8_ThresholdResolution ==
    /\ (pc = "failed" /\ "jobs" \in DOMAIN state => error \in {"AttributeError", "OSError"})
    /\ (MatchJobsDone =>
          LET threshold == state["stats"]["exp_threshold"]
          IN  /\ threshold = ConvertedThreshold(state["profile"])
              /\ threshold = exp_threshold
              /\ \A i \in 1..Len(state["matches"]) :
                    ComparedWith(state["matches"][i], threshold)
              /\ \A i \in 1..Len(state["rejected"]) :
                    ComparedWith(state["rejected"][i], threshold))

\* the profile holds the string "5"; the run used 5 and reports 5, and a
\* posting asking for 3 years went to the model
C8_Witness ==
    /\ pc = "END"
    /\ MatchJobsDone
    /\ HasPath(state["profile"], ThresholdPath)
    /\ ValueAt(state["profile"], ThresholdPath) = JStr(<<"5">>)
    /\ state["stats"]["exp_threshold"] = 5
    /\ \E k \in 1..Len(llm_calls) : state["jobs"][llm_calls[k].idx] = JobAnalyst

(***************************************************************************)
(* C9. Single terminal write: the artifact matches_<run_date> is written   *)
(* at most once, only in SaveResults, only after MatchJobs handled every   *)
(* posting (or was skipped), and atomically: a run that aborts or is       *)
(* terminated leaves no partial or malformed artifact.                     *)
(***************************************************************************)
C9_SingleAtomicWrite ==
    /\ writes <= 1
    /\ (writes > 0 =>
          /\ pc \in {"save_dump", "END", "failed", "killed"}
          /\ "jobs" \in DOMAIN state
          /\ (Len(state["jobs"]) > 0 => idx = Len(state["jobs"])))
    /\ \A d \in DOMAIN artifact :
          artifact[d].status = "complete" \/ pc = "save_dump"

(***************************************************************************)
(* C10. Profile-load failure is fatal: when the profile source is missing  *)
(* or unreadable the run fails in LoadProfile with the error of the read,  *)
(* no profile is substituted, LoadJobs, MatchJobs and SaveResults are      *)
(* never entered, and no artifact is written.                              *)
(***************************************************************************)
C10_ProfileFailureFatal ==
    profile_file.status # "ok" =>
        /\ pc \in {"load_profile_node", "failed", "killed"}
        /\ (pc = "failed" => error \in {"FileNotFoundError", "JSONDecodeError"})
        /\ DOMAIN state \cap {"profile", "jobs"} = {}
        /\ state \in InitialStates
        /\ llm_calls = <<>>
        /\ writes = 0
        /\ artifact = EmptyDict

\* the run has failed on a missing profile file
C10_Witness ==
    /\ profile_file.status = "missing"
    /\ pc = "failed"
    /\ error = "FileNotFoundError"

(***************************************************************************)
(* C11. Job source resolution: LoadJobs uses the "new jobs" key of         *)
(* run_date whenever that key is present (even when it holds an empty      *)
(* list), the "jobs" key of run_date only when the "new jobs" key is       *)
(* absent, and an empty batch only when both are absent; stats.jobs_source *)
(* names the key used or the sentinel "NONE", and stats.jobs_loaded is the *)
(* length of the resolved batch.                                           *)
(***************************************************************************)
\* the batch and the statistics say that key was used
LoadedFrom(key) ==
    /\ state["jobs"] = store[key]
    /\ state["stats"]["jobs_source"] = key

C11_SourceResolution ==
    "jobs" \in DOMAIN state =>
        LET new_key == <<"new_jobs", state["run_date"]>>
            jobs_key == <<"jobs", state["run_date"]>>
        IN  /\ (new_key \in DOMAIN store => LoadedFrom(new_key))
            /\ (new_key \notin DOMAIN store /\ jobs_key \in DOMAIN store =>
                    LoadedFrom(jobs_key))
            /\ (new_key \notin DOMAIN store /\ jobs_key \notin DOMAIN store =>
                    /\ state["jobs"] = <<>>
                    /\ state["stats"]["jobs_source"] = <<"NONE", "">>)
            /\ state["stats"]["jobs_loaded"] = Len(state["jobs"])
            /\ \A r \in RunResults :
                  /\ r.stats["jobs_source"] = state["stats"]["jobs_source"]
                  /\ r.stats["jobs_loaded"] = Len(state["jobs"])

\* the new_jobs file of the run date is there and empty, the jobs file of the
\* run date is not empty, and the run has finished on the empty batch
C11_Witness ==
    /\ pc = "END"
    /\ <<"new_jobs", Today>> \in DOMAIN store
    /\ store[<<"new_jobs", Today>>] = <<>>
    /\ <<"jobs", Today>> \in DOMAIN store
    /\ store[<<"jobs", Today>>] # <<>>
    /\ state["run_date"] = Today
    /\ state["jobs"] = <<>>
    /\ state["stats"]["jobs_source"] = <<"new_jobs", Today>>

(***************************************************************************)
(* C12. Additive merge: across every stage transition every top-level      *)
(* state field and every RunStats key written earlier is still present     *)
(* afterwards, and profile_loaded, jobs_source and jobs_loaded, written by *)
(* LoadProfile and LoadJobs, are left unchanged by MatchJobs and           *)
(* SaveResults, on the MatchJobs path and on the skip path; so the         *)
(* RunResult always has run_date, stats, matches and rejected.             *)
(***************************************************************************)
StatsOf(st) == Get(st, "stats", EmptyDict)

LoadStats == {"profile_loaded", "jobs_source", "jobs_loaded"}

\* one step drops no field and no statistic, and after the two load stages
\* it leaves their fields and statistics as they are
AdditiveStep ==
    /\ DOMAIN state \subseteq DOMAIN state'
    /\ DOMAIN StatsOf(state) \subseteq DOMAIN StatsOf(state')
    /\ pc \notin {"load_profile_node", "load_jobs_node"} =>
          /\ \A k \in LoadStats \cap DOMAIN StatsOf(state) :
                StatsOf(state')[k] = StatsOf(state)[k]
          /\ \A f \in {"run_date", "profile", "jobs"} \cap DOMAIN state :
                state'[f] = state[f]

\* what each stage has written is in the state from then on
WrittenSoFar ==
    /\ pc \notin {"load_profile_node", "failed", "killed"} =>
          /\ {"run_date", "profile", "stats"} \subseteq DOMAIN state
          /\ Get(state["stats"], "profile_loaded", FALSE) = TRUE
    /\ pc \in {"match_jobs_node", "match_loop", "match_sleep",
               "save_results_node", "save_dump", "END"} =>
          /\ {"jobs", "matches", "rejected"} \subseteq DOMAIN state
          /\ LoadStats \subseteq DOMAIN state["stats"]
    /\ MatchJobsDone =>
          LoadStats \cup {"matching_ran", "matches_count", "rejected_count",
                          "exp_threshold"} \subseteq DOMAIN state["stats"]
    /\ \A r \in RunResults :
          /\ DOMAIN r = {"run_date", "stats", "matches", "rejected"}
          /\ r.stats = state["stats"]
          /\ LoadStats \subseteq DOMAIN r.stats

C12_AdditiveMerge == []WrittenSoFar /\ [][AdditiveStep]_vars

\* a RunResult written on the MatchJobs path, with the statistics of all
\* three stages
C12_Witness ==
    /\ pc = "END"
    /\ MatchJobsDone
    /\ \E r \in RunResults : r.stats["jobs_loaded"] = 2 /\ r.stats["matches_count"] = 1

(***************************************************************************)
(* C13. Dedup result: for all lists A (today) and B (yesterday) the new-   *)
(* jobs list is a subsequence of A in A's order holding exactly the        *)
(* postings of A whose identifier is missing or is not the identifier of   *)
(* any posting of B; postings of B without identifier add nothing to the   *)
(* seen-set; dedup(A, []) = A; and dedup of the result with the same B is  *)
(* the result.                                                             *)
(***************************************************************************)
RECURSIVE IsSubsequence(_, _)
IsSubsequence(r, a) ==
    IF Len(r) = 0 THEN TRUE
    ELSE IF Len(a) = 0 THEN FALSE
    ELSE IF Head(r) = Head(a) THEN IsSubsequence(Tail(r), Tail(a))
    ELSE IsSubsequence(r, Tail(a))

\* the posting has no identifier, or no posting of b has its identifier
IsNew(job, b) == job.id = "" \/ \A j \in 1..Len(b) : b[j].id # job.id

\* the postings of a that are new, in the order of a
RECURSIVE NewOf(_, _)
NewOf(a, b) ==
    IF Len(a) = 0 THEN <<>>
    ELSE IF IsNew(Head(a), b) THEN <<Head(a)>> \o NewOf(Tail(a), b)
    ELSE NewOf(Tail(a), b)

TodayJobs == Get(store, <<"jobs", Today>>, <<>>)
YesterdayJobs == Get(store, <<"jobs", Yesterday>>, <<>>)

C13_DedupResult ==
    <<"new_jobs", Today>> \in DOMAIN store =>
        LET result == store[<<"new_jobs", Today>>]
        IN  /\ IsSubsequence(result, TodayJobs)
            /\ result = NewOf(TodayJobs, YesterdayJobs)
            /\ (YesterdayJobs = <<>> => result = TodayJobs)
            /\ new_jobs(result, YesterdayJobs) = result

\* today's list has a seen posting in the middle of two new ones, one of them
\* without identifier as a posting of yesterday's list is
C13_Witness ==
    /\ <<"new_jobs", Today>> \in DOMAIN store
    /\ TodayJobs = <<JobIntern, JobSenior, JobAnalyst>>
    /\ YesterdayJobs = <<JobRepost, JobIntern>>
    /\ store[<<"new_jobs", Today>>] = <<JobIntern, JobAnalyst>>

(***************************************************************************)
(* C14. Fresh per run: for every initial state handed to the graph, the    *)
(* matches, rejected and stats of the persisted RunResult hold only        *)
(* Decisions and counters produced by the stages of this run; nothing of   *)
(* the caller's initial state is merged into them, on the MatchJobs path   *)
(* and on the skip path alike.                                             *)
(***************************************************************************)
MatchStats == {"matching_ran", "matches_count", "rejected_count", "exp_threshold"}

C14_FreshPerRun ==
    \A r \in RunResults :
        IF EmptyBatchLoaded
        THEN /\ r.matches = <<>>
             /\ r.rejected = <<>>
             /\ DOMAIN r.stats = LoadStats
        ELSE /\ r.matches = matches
             /\ r.rejected = rejected
             /\ DOMAIN r.stats = LoadStats \cup MatchStats

(***************************************************************************)
(* C15. Single-date keying: within one run, run_date is fixed at           *)
(* LoadProfile (the caller's value, or today's date if absent) and every   *)
(* Snapshot Store access of the run uses keys of that one run_date; each   *)
(* key is read at most once and written at most once per run, and the      *)
(* artifact is written under matches_<run_date> for the run_date whose     *)
(* jobs were loaded.                                                       *)
(***************************************************************************)
\* LoadProfile fixes run_date, and no later step changes it
KeepsRunDate ==
    /\ pc = "load_profile_node" /\ pc' = "load_jobs_node" =>
          state'["run_date"] = IF "run_date" \in DOMAIN state /\ state["run_date"] # ""
                               THEN state["run_date"] ELSE Today
    /\ pc # "load_profile_node" /\ "run_date" \in DOMAIN state =>
          state'["run_date"] = state["run_date"]

\* the source read and the artifact written are keyed by run_date; the
\* profile and the batch are read when they are not yet in the state, and
\* the artifact is opened for writing once
KeyedByRunDate ==
    /\ pc = "load_profile_node" => "profile" \notin DOMAIN state
    /\ pc \in {"load_profile_node", "load_jobs_node"} =>
          "jobs" \notin DOMAIN state /\ artifact = EmptyDict
    /\ "jobs" \in DOMAIN state =>
          LET source == state["stats"]["jobs_source"]
          IN  \/ source = <<"NONE", "">>
              \/ source[1] \in {"new_jobs", "jobs"} /\ source[2] = state["run_date"]
    /\ writes <= 1
    /\ (writes = 0 <=> artifact = EmptyDict)
    /\ \A d \in DOMAIN artifact :
          /\ d = state["run_date"]
          /\ "jobs" \in DOMAIN state
          /\ artifact[d].status = "complete" => artifact[d].data.run_date = d

C15_SingleDateKeying == []KeyedByRunDate /\ [][KeepsRunDate]_vars

\* the caller asked for yesterday's date: yesterday's snapshot was read and
\* yesterday's artifact written
C15_Witness ==
    /\ pc = "END"
    /\ state["run_date"] = Yesterday
    /\ state["stats"]["jobs_source"] = <<"jobs", Yesterday>>
    /\ DOMAIN artifact = {Yesterday}
    /\ artifact[Yesterday].status = "complete"
    /\ artifact[Yesterday].data.run_date = Yesterday

(***************************************************************************)
(* C16. Dedup purity.                                                      *)
(***************************************************************************)
\* C16 as stated: the deduplication operation has no side effects; it only
\* computes the new-postings list and leaves the Snapshot Store unchanged,
\* persistence being done by its caller.
C16_DedupPure == [][store' = store]_vars

\* a step changes the store only by adding the new_jobs file of today, which
\* holds the new postings of today's snapshot
WritesNewJobsOnly ==
    store' # store =>
        /\ DOMAIN store' = DOMAIN store \cup {<<"new_jobs", Today>>}
        /\ \A key \in DOMAIN store \ {<<"new_jobs", Today>>} : store'[key] = store[key]
        /\ store'[<<"new_jobs", Today>>] = NewOf(TodayJobs, YesterdayJobs)
        /\ UNCHANGED <<pc, state, profile_file, artifact, idx, matches, rejected,
                       exp_threshold, llm_calls, writes, error>>

\* C16, amended: the deduplication operation changes neither today's nor
\* yesterday's snapshot and nothing of a pipeline run, but it is not pure: it
\* persists the new-postings list itself, under the new-jobs key of today
\* and under no other key.
C16_DedupWritesNewJobs == [][WritesNewJobsOnly]_vars

\* the deduplicator has written a list shorter than today's snapshot, and
\* both snapshots are as they were fetched
C16_Witness ==
    /\ <<"new_jobs", Today>> \in DOMAIN store
    /\ TodayJobs = <<JobSenior, JobAnalyst>>
    /\ YesterdayJobs = <<JobRepost>>
    /\ store[<<"new_jobs", Today>>] = <<JobAnalyst>>

(***************************************************************************)
(* C17. Model-call spacing: within MatchJobs a pause step occurs between   *)
(* any two successive model invocations of a batch, also when the earlier  *)
(* invocation failed, and at most one invocation is outstanding at a time. *)
(***************************************************************************)
\* a step that invokes the model invokes it once and ends at the pause (or in
\* the crash of the batch); the only step out of the pause is the pause
\* itself or the end of the process, neither of which invokes the model; and
\* the loop passes a posting the model judged only by the pause step
SpacedStep ==
    /\ llm_calls' # llm_calls =>
          /\ pc = "match_loop"
          /\ llm_calls' = Append(llm_calls, Last(llm_calls'))
          /\ Last(llm_calls').idx = idx + 1
          /\ pc' \in {"match_sleep", "failed"}
          /\ IsException(llm_match_job_ollama(Last(llm_calls').outcome)) =>
                pc' = "match_sleep"
    /\ pc = "match_sleep" =>
          /\ llm_calls' = llm_calls
          /\ pc' \in {"match_loop", "killed"}
          /\ pc' = "match_loop" => idx' = idx + 1
    /\ (idx' # idx /\ \E k \in 1..Len(llm_calls') : llm_calls'[k].idx = idx') =>
          pc = "match_sleep"

\* the invocations are of different postings, in batch order; in the pause the
\* last invocation is that of the current posting, and outside the pause
\* every invocation is of a posting the loop has passed
OneAtATime ==
    /\ \A k \in 1..Len(llm_calls) : \A l \in 1..Len(llm_calls) :
          k < l => llm_calls[k].idx < llm_calls[l].idx
    /\ pc = "match_sleep" => Len(llm_calls) > 0 /\ Last(llm_calls).idx = idx + 1
    /\ pc \in {"match_loop", "save_results_node", "save_dump", "END"} =>
          \A k \in 1..Len(llm_calls) : llm_calls[k].idx <= idx

C17_CallSpacing == []OneAtATime /\ [][SpacedStep]_vars

\* the second invocation of a batch has been made, after a first one that
\* raised
C17_Witness ==
    /\ pc = "match_sleep"
    /\ Len(llm_calls) = 2
    /\ llm_calls[1].outcome.raised
    /\ llm_calls[2].idx = llm_calls[1].idx + 1

(***************************************************************************)
(* C18. Parse-repair protocol: for any model text the parser first tries a *)
(* strict JSON parse of the whole text and returns that value on success;  *)
(* only on failure it takes the region from the first "{" to the last "}"  *)
(* and parses it strictly; it fails with "no JSON object found" when there *)
(* is no such region and with a malformed-JSON outcome when the region     *)
(* does not parse; and a successful parse always yields a JSON object      *)
(* carrying the Decision fields.                                           *)
(***************************************************************************)
\* the texts the model has returned so far
TextsParsed ==
    {llm_calls[k].outcome.content :
        k \in {i \in 1..Len(llm_calls) : ~llm_calls[i].outcome.raised}}

C18_ParseRepair ==
    \A text \in TextsParsed :
        LET parsed == _safe_json_loads(text)
            region == BraceRegion(text)
        IN  /\ json_loads(text) # ParseError => parsed = json_loads(text)
            /\ json_loads(text) = ParseError /\ region = <<>> => parsed = NoObjectError
            /\ json_loads(text) = ParseError /\ region # <<>> => parsed = json_loads(region)
            /\ parsed \notin {ParseError, NoObjectError} =>
                  /\ parsed.vt = "dict"
                  /\ DecisionKeys \subseteq DOMAIN parsed.d

(***************************************************************************)
(* C19. Count consistency: in every RunResult of a run in which MatchJobs  *)
(* ran, stats.matches_count is the length of matches, stats.rejected_count *)
(* the length of rejected, and their sum is stats.jobs_loaded; in a run    *)
(* that took the skip branch matches_count and rejected_count are absent   *)
(* and jobs_loaded is 0.                                                   *)
(***************************************************************************)
CountsAgree(r) ==
    /\ {"matches_count", "rejected_count", "jobs_loaded"} \subseteq DOMAIN r.stats
    /\ r.stats["matches_count"] = Len(r.matches)
    /\ r.stats["rejected_count"] = Len(r.rejected)
    /\ r.stats["matches_count"] + r.stats["rejected_count"] = r.stats["jobs_loaded"]

CountsAbsent(r) ==
    /\ DOMAIN r.stats \cap {"matches_count", "rejected_count"} = {}
    /\ Get(r.stats, "jobs_loaded", -1) = 0

C19_CountConsistency ==
    \A r \in RunResults :
        /\ MatchJobsDone => CountsAgree(r)
        /\ EmptyBatchLoaded => CountsAbsent(r)

(***************************************************************************)
(* C20. Dedup-then-evaluate composition: once the deduplicator has run for *)
(* date D it has written the new-jobs key of D, even when the result is    *)
(* empty, so a subsequent pipeline run for D resolves its batch from that  *)
(* key and never evaluates, by rule or by model, a posting whose           *)
(* identifier is in the snapshot of D-1; when every posting of D is a      *)
(* duplicate the run takes the skip branch instead of falling back to the  *)
(* full jobs key.                                                          *)
(***************************************************************************)
AllNew(records) == \A i \in 1..Len(records) : IsNew(records[i].job, YesterdayJobs)

AllDuplicates == \A i \in 1..Len(TodayJobs) : ~IsNew(TodayJobs[i], YesterdayJobs)

C20_DedupThenEvaluate ==
    (/\ <<"new_jobs", Today>> \in DOMAIN store
     /\ "jobs" \in DOMAIN state
     /\ state["run_date"] = Today) =>
        /\ state["jobs"] = store[<<"new_jobs", Today>>]
        /\ \A i \in 1..Len(state["jobs"]) : IsNew(state["jobs"][i], YesterdayJobs)
        /\ AllNew(matches) /\ AllNew(rejected)
        /\ AllNew(state["matches"]) /\ AllNew(state["rejected"])
        /\ \A k \in 1..Len(llm_calls) :
              IsNew(state["jobs"][llm_calls[k].idx], YesterdayJobs)
        /\ Len(matches) + Len(rejected) <= Len(state["jobs"])
        /\ AllDuplicates =>
              /\ state["jobs"] = <<>>
              /\ ~InMatchJobs
              /\ idx = 0
              /\ llm_calls = <<>>
              /\ matches = <<>> /\ rejected = <<>>

\* both postings of today carry an identifier of yesterday's snapshot: the
\* new_jobs file is empty and the run has ended without evaluating anything
C20_Witness ==
    /\ pc = "END"
    /\ TodayJobs = <<JobSenior, JobRepost>>
    /\ YesterdayJobs = <<JobRepost>>
    /\ <<"new_jobs", Today>> \in DOMAIN store
    /\ store[<<"new_jobs", Today>>] = <<>>
    /\ state["jobs"] = <<>>
    /\ state["stats"]["jobs_source"] = <<"new_jobs", Today>>
    /\ llm_calls = <<>>

====
